---- MODULE Spec2Model ----
(***************************************************************************)
(* interactive_shell (src/modal-thopters/sandbox.py, lines 132-263): the   *)
(* terminal proxy that attaches the operator's terminal to `modal shell`   *)
(* running on a pty, with ssh-style escape sequences (~. ~~ ~?).           *)
(*                                                                         *)
(* One action per statement group of the function; the environment (the    *)
(* operator's keystrokes, the child's output and exit, I/O faults, signals *)
(* delivered to the proxy) is the nondeterminism of the actions.           *)
(***************************************************************************)
EXTENDS Integers, Sequences, FiniteSets, TLC

VARIABLES
    pc,             \* position of the proxy in interactive_shell
    exc,            \* exception propagating out of the try block ("none" if none)
    child,          \* "none" | "running" | "hung" (ignores SIGTERM, will not exit)
                    \* | "zombie" (exited, not waited) | "reaped"
    termMode,       \* mode of the local terminal (fd 0): "cooked" | "raw"
    snapshot,       \* old_settings captured by tcgetattr (line 185)?
    restores,       \* number of tcsetattr(0, TCSAFLUSH, old_settings) calls
    sigwinch,       \* installed SIGWINCH handler: "old" | "handle_winch"
    after_newline,  \* line 189
    in_escape,      \* line 190
    rlist,          \* result of select (line 194)
    data,           \* bytes of the current stdin read still to be scanned
    out,            \* the bytearray `out` (line 215)
    lastStep,       \* the last byte scanned: its value, the state before, the outcome
    prevStep,       \* the byte scanned before that one, likewise
    stdinHist,      \* every byte read from fd 0 so far
    ptyIn,          \* every byte written to master_fd so far
    ptyBuf,         \* chunks the child wrote to the pty that the proxy has not read
    childOut,       \* number of chunks the child has written so far
    termOut,        \* what was written to fd 1, in order: "data" | "help" | "notice"
    sigsent,        \* signals sent to child_pid, in order, with the child's state then
    spawn,          \* os.execvp in the child (line 173): "none" | "ok" | "failed"
    localGeom,      \* rows x columns of the local terminal (fd 0)
    ptyGeom,        \* rows x columns last applied to the pty ("unset" before any)
    lastSync,       \* outcome of the last copy_winsize call: "none" | "ok" | "failed"
    everFailed,     \* has a copy_winsize call failed in this session?
    copied,         \* did this iteration's master branch copy pty output to fd 1?
    lastFwd,        \* the last byte appended to `out` in this session (0 if none)
    readStart,      \* how many bytes had been read from fd 0 before the current read
    quiet           \* the operator types nothing more and the pty stays open without
                    \* a writer: neither descriptor becomes ready again, except for
                    \* child output that is already buffered

vars == <<pc, exc, child, termMode, snapshot, restores, sigwinch, after_newline,
          in_escape, rlist, data, out, lastStep, prevStep, stdinHist, ptyIn,
          ptyBuf, childOut, termOut, sigsent, spawn, localGeom, ptyGeom,
          lastSync, everFailed, copied, lastFwd, readStart, quiet>>

\* The window-size state (copy_winsize, lines 156-162).
winVars == <<localGeom, ptyGeom, lastSync, everFailed>>

\* ---- bounds of the model ------------------------------------------------
MaxInput == 3       \* bytes the operator types during the session
MaxChildOut == 1    \* chunks of output the child produces
MaxDetInput == 5    \* bytes the operator types when the escape filter is run alone
MaxEnvInput == 1    \* bytes the operator types in the session with its whole environment

\* The geometries the local terminal takes.
Geoms == {"80x24", "132x43"}

\* ---- bytes the code distinguishes ---------------------------------------
ESCAPE_CHAR == 126
DOT == 46
QMARK == 63
CR == 13
LF == 10

\* The bytes the operator may type: the five the code tests for, and one other ("x").
Bytes == {ESCAPE_CHAR, DOT, QMARK, CR, LF} \cup {120}

\* Non-empty byte strings of length at most n.
Chunks(n) == UNION {[1..k -> Bytes] : k \in 1..n}

\* byte in (ord("\r"), ord("\n"))   (lines 238 and 244)
IsNewlineLFOnly(byte) == byte = LF
IsNewline(byte) == byte \in {CR, LF}

\* ---- the escape filter: one iteration of `for byte in data` -------------
\* Each branch gives emit: what the iteration does; fwd: the bytes it appends to
\* `out`; an, ie: after_newline and in_escape after the iteration.

\* in_escape, byte == ord("."): write the notice, kill, wait, return
EscDisconnectForwards(an) ==
    [emit |-> "forward", fwd |-> <<ESCAPE_CHAR, DOT>>, an |-> FALSE, ie |-> FALSE]
EscDisconnect(an) ==
    [emit |-> "disconnect", fwd |-> <<>>, an |-> an, ie |-> FALSE]

\* in_escape, byte == ord("?"): write the help; after_newline is not assigned
EscHelpForwards(an) ==
    [emit |-> "showHelp", fwd |-> <<ESCAPE_CHAR, QMARK>>, an |-> an, ie |-> FALSE]
EscHelpClearsAfterNewline(an) ==
    [emit |-> "showHelp", fwd |-> <<>>, an |-> FALSE, ie |-> FALSE]
EscHelp(an) ==
    [emit |-> "showHelp", fwd |-> <<>>, an |-> an, ie |-> FALSE]

\* in_escape, byte == ESCAPE_CHAR: out.append(byte); after_newline = False
EscLiteralKeepsAfterNewline(byte, an) ==
    [emit |-> "forward", fwd |-> <<byte>>, an |-> an, ie |-> FALSE]
EscLiteral(byte, an) ==
    [emit |-> "forward", fwd |-> <<byte>>, an |-> FALSE, ie |-> FALSE]

\* in_escape, any other byte: out.append(ESCAPE_CHAR); out.append(byte);
\* after_newline = byte in (ord("\r"), ord("\n"))
EscUnrecognizedDropsIntroducer(byte) ==
    [emit |-> "forward", fwd |-> <<byte>>, an |-> IsNewline(byte), ie |-> FALSE]
EscUnrecognized(byte) ==
    [emit |-> "forward", fwd |-> <<ESCAPE_CHAR, byte>>, an |-> IsNewline(byte),
     ie |-> FALSE]

\* elif after_newline and byte == ESCAPE_CHAR
IsIntroducerAnywhere(byte, an) == byte = ESCAPE_CHAR
IsIntroducer(byte, an) == an /\ byte = ESCAPE_CHAR

\* in_escape = True; continue
SwallowMidLine(an) ==
    [emit |-> "swallow", fwd |-> <<>>, an |-> FALSE, ie |-> TRUE]
Swallow(an) ==
    [emit |-> "swallow", fwd |-> <<>>, an |-> an, ie |-> TRUE]

\* else: after_newline = byte in (ord("\r"), ord("\n")); out.append(byte)
PlainMidLine(byte) ==
    [emit |-> "forward", fwd |-> <<byte>>, an |-> FALSE, ie |-> FALSE]
Plain(byte) ==
    [emit |-> "forward", fwd |-> <<byte>>, an |-> IsNewline(byte), ie |-> FALSE]

Detect(byte, an, ie) ==
    IF ie
    THEN IF byte = DOT THEN EscDisconnect(an)
         ELSE IF byte = QMARK THEN EscHelp(an)
         ELSE IF byte = ESCAPE_CHAR THEN EscLiteral(byte, an)
         ELSE EscUnrecognized(byte)
    ELSE IF IsIntroducer(byte, an) THEN Swallow(an)
         ELSE Plain(byte)

\* The `for byte in data` loop run over a whole byte string s from the filter
\* state st: the state after it, the outcome of the last byte scanned and all
\* the bytes appended to `out` on the way. The scan stops at a disconnect
\* (the return of line 224).
RECURSIVE Scan(_, _)
Scan(s, st) ==
    IF s = <<>> \/ st.emit = "disconnect"
    THEN st
    ELSE LET r == Detect(Head(s), st.an, st.ie)
         IN  Scan(Tail(s), [an |-> r.an, ie |-> r.ie, emit |-> r.emit,
                            fwd |-> st.fwd \o r.fwd])

\* after_newline = True; in_escape = False   (lines 189-190)
ScanStart == [an |-> TRUE, ie |-> FALSE, emit |-> "none", fwd |-> <<>>]

NoStep == [byte |-> 0, an |-> FALSE, ie |-> FALSE, emit |-> "none", fwd |-> <<>>]

Ended == pc \in {"returned", "raised", "killed"}

\* Control leaves the try block (break, return or exception): the finally block runs.
ToFinally(e) == pc' = "fin_restore" /\ exc' = e

\* Control leaves interactive_shell.
Leave == pc' = IF exc = "none" THEN "returned" ELSE "raised"

Init ==
    /\ pc = "fork"
    /\ exc = "none"
    /\ child = "none"
    /\ termMode = "cooked"
    /\ snapshot = FALSE
    /\ restores = 0
    /\ sigwinch = "old"
    /\ after_newline = FALSE
    /\ in_escape = FALSE
    /\ rlist = {}
    /\ data = <<>>
    /\ out = <<>>
    /\ lastStep = NoStep
    /\ prevStep = NoStep
    /\ stdinHist = <<>>
    /\ ptyIn = <<>>
    /\ ptyBuf = 0
    /\ childOut = 0
    /\ termOut = <<>>
    /\ sigsent = <<>>
    /\ spawn = "none"
    /\ localGeom = "80x24"
    /\ ptyGeom = "unset"
    /\ lastSync = "none"
    /\ everFailed = FALSE
    /\ copied = FALSE
    /\ lastFwd = 0
    /\ quiet = FALSE
    /\ readStart = 0


\* ---- setup (lines 169-187) ----------------------------------------------
\* child_pid, master_fd = pty.fork(): raises OSError when no pty can be allocated.
Fork ==
    /\ pc = "fork"
    /\ \/ child' = "running" /\ pc' = "winsize" /\ exc' = exc
       \/ child' = child /\ pc' = "raised" /\ exc' = "OSError"
    /\ UNCHANGED <<termMode, snapshot, restores, sigwinch, after_newline, in_escape,
                   rlist, data, out, lastStep, prevStep, stdinHist, ptyIn, ptyBuf, childOut,
                   termOut, sigsent>>
    /\ spawn' = IF child' = "running" THEN "ok" ELSE spawn
    /\ UNCHANGED <<winVars, copied, lastFwd, quiet, readStart>>

\* copy_winsize(from_fd, to_fd) called when the local terminal has geometry g:
\* both ioctls succeed and the pty takes g, or one raises OSError, which is
\* swallowed (lines 158-162), and the pty keeps what it had.
CopyWinsize(g, ok) ==
    /\ ptyGeom' = IF ok THEN g ELSE ptyGeom
    /\ lastSync' = IF ok THEN "ok" ELSE "failed"
    /\ everFailed' = (everFailed \/ ~ok)

\* copy_winsize(0, master_fd) at line 176.
WinsizeStep(ok) ==
    /\ pc = "winsize"
    /\ CopyWinsize(localGeom, ok)
    /\ pc' = "sigreg"
    /\ UNCHANGED <<exc, child, termMode, snapshot, restores, sigwinch, after_newline,
                   in_escape, rlist, data, out, lastStep, prevStep, stdinHist, ptyIn,
                   ptyBuf, childOut, termOut, sigsent, spawn, localGeom, copied,
                   lastFwd, quiet, readStart>>

InitialWinsize == WinsizeStep(TRUE)

InitialWinsizeFails == WinsizeStep(FALSE)

\* old_sigwinch = signal.signal(signal.SIGWINCH, handle_winch)
RegisterWinch ==
    /\ pc = "sigreg"
    /\ sigwinch' = "handle_winch"
    /\ pc' = "tcget"
    /\ UNCHANGED <<exc, child, termMode, snapshot, restores, after_newline, in_escape,
                   rlist, data, out, lastStep, prevStep, stdinHist, ptyIn, ptyBuf, childOut,
                   termOut, sigsent>>
    /\ UNCHANGED <<spawn, winVars, copied, lastFwd, quiet, readStart>>

\* old_settings = termios.tcgetattr(0): outside the try block, so a termios.error
\* leaves the function without running the finally block.
TcGetAttr ==
    /\ pc = "tcget"
    /\ \/ snapshot' = TRUE /\ pc' = "setraw" /\ exc' = exc
       \/ snapshot' = snapshot /\ pc' = "raised" /\ exc' = "termios.error"
    /\ UNCHANGED <<child, termMode, restores, sigwinch, after_newline, in_escape,
                   rlist, data, out, lastStep, prevStep, stdinHist, ptyIn, ptyBuf, childOut,
                   termOut, sigsent>>
    /\ UNCHANGED <<spawn, winVars, copied, lastFwd, quiet, readStart>>

\* tty.setraw(0); after_newline = True; in_escape = False  (inside the try block)
SetRaw ==
    /\ pc = "setraw"
    /\ \/ /\ termMode' = "raw"
          /\ after_newline' = TRUE
          /\ in_escape' = FALSE
          /\ pc' = "select"
          /\ exc' = exc
       \/ /\ ToFinally("termios.error")
          /\ UNCHANGED <<termMode, after_newline, in_escape>>
    /\ UNCHANGED <<child, snapshot, restores, sigwinch, rlist, data, out, lastStep, prevStep,
                   stdinHist, ptyIn, ptyBuf, childOut, termOut, sigsent>>
    /\ UNCHANGED <<spawn, winVars, copied, lastFwd, quiet, readStart>>

\* ---- the loop (lines 192-253) -------------------------------------------
\* The pty master can be readable when the child's output is buffered or the
\* child is gone (hang-up); it is readable whenever output is buffered. After
\* the child's exit with nothing buffered it need not be: a descendant of the
\* child may hold the pty open.
MasterReady == ptyBuf > 0 \/ child \notin {"running", "hung"}

\* select.select([0, master_fd], [], []) without the timeout: it returns only
\* when a descriptor is ready.
SelectNoTimeout ==
    /\ pc = "select"
    /\ \/ \E r \in SUBSET {"stdin", "master"} :
            /\ ("master" \in r) => MasterReady
            /\ (ptyBuf > 0) => ("master" \in r)
            /\ quiet => (r \subseteq {"master"} /\ ("master" \in r => ptyBuf > 0))
            /\ r # {}
            /\ rlist' = r
            /\ pc' = "master"
            /\ exc' = exc
       \/ ToFinally(exc) /\ rlist' = rlist
    /\ UNCHANGED <<child, termMode, snapshot, restores, sigwinch, after_newline,
                   in_escape, data, out, lastStep, prevStep, stdinHist, ptyIn, ptyBuf, childOut,
                   termOut, sigsent>>
    /\ copied' = FALSE
    /\ UNCHANGED <<spawn, winVars, lastFwd, quiet, readStart>>

\* rlist, _, _ = select.select([0, master_fd], [], [], 0.5); select.error breaks.
\* stdin is ready when the operator typed or stdin is at end-of-stream; an empty
\* rlist is the 0.5 s timeout.
Select ==
    /\ pc = "select"
    /\ \/ \E r \in SUBSET {"stdin", "master"} :
            /\ ("master" \in r) => MasterReady
            /\ (ptyBuf > 0) => ("master" \in r)
            /\ quiet => (r \subseteq {"master"} /\ ("master" \in r => ptyBuf > 0))
            /\ rlist' = r
            /\ pc' = "master"
            /\ exc' = exc
       \/ ToFinally(exc) /\ rlist' = rlist
    /\ UNCHANGED <<child, termMode, snapshot, restores, sigwinch, after_newline,
                   in_escape, data, out, lastStep, prevStep, stdinHist, ptyIn, ptyBuf, childOut,
                   termOut, sigsent>>
    /\ copied' = FALSE
    /\ UNCHANGED <<spawn, winVars, lastFwd, quiet, readStart>>

\* if master_fd in rlist: data = os.read(master_fd, 4096); os.write(1, data)
\* The read fails or returns b"" when the child has closed the pty and nothing is
\* buffered; os.write(1, ...) may raise OSError, which no handler catches.
MasterBranchDeferred ==
    /\ pc = "master"
    /\ IF "master" \notin rlist \/ ptyBuf > 0
       THEN pc' = "stdin" /\ UNCHANGED <<exc, ptyBuf, termOut, copied>>
       ELSE ToFinally(exc) /\ UNCHANGED <<ptyBuf, termOut, copied>>
    /\ UNCHANGED <<child, termMode, snapshot, restores, sigwinch, after_newline,
                   in_escape, rlist, data, out, lastStep, prevStep, stdinHist, ptyIn, childOut,
                   sigsent>>
    /\ UNCHANGED <<spawn, winVars, lastFwd, quiet, readStart>>

MasterBranch ==
    /\ pc = "master"
    /\ IF "master" \notin rlist
       THEN pc' = "stdin" /\ UNCHANGED <<exc, ptyBuf, termOut, copied>>
       ELSE IF ptyBuf = 0
       THEN ToFinally(exc) /\ UNCHANGED <<ptyBuf, termOut, copied>>
       ELSE /\ ptyBuf' = 0
            /\ \/ /\ termOut' = Append(termOut, "data")
                  /\ copied' = TRUE
                  /\ pc' = "stdin"
                  /\ exc' = exc
               \/ /\ termOut' = termOut
                  /\ copied' = copied
                  /\ ToFinally("OSError")
    /\ UNCHANGED <<child, termMode, snapshot, restores, sigwinch, after_newline,
                   in_escape, rlist, data, out, lastStep, prevStep, stdinHist, ptyIn, childOut,
                   sigsent>>
    /\ UNCHANGED <<spawn, winVars, lastFwd, quiet, readStart>>

\* if 0 in rlist: data = os.read(0, 4096); out = bytearray()
\* A read error or b"" (end-of-stream) breaks. cap bounds the bytes typed in a run.
StdinBranchKeepsOut(cap) ==
    /\ pc = "stdin"
    /\ IF "stdin" \notin rlist
       THEN pc' = "poll" /\ UNCHANGED <<exc, data, out, stdinHist, readStart>>
       ELSE \/ ToFinally(exc) /\ UNCHANGED <<data, out, stdinHist, readStart>>
            \/ \E chunk \in Chunks(cap - Len(stdinHist)) :
                 /\ data' = chunk
                 /\ out' = out
                 /\ stdinHist' = stdinHist \o chunk
                 /\ readStart' = Len(stdinHist)
                 /\ pc' = "bytes"
                 /\ exc' = exc
    /\ UNCHANGED <<child, termMode, snapshot, restores, sigwinch, after_newline,
                   in_escape, rlist, lastStep, prevStep, ptyIn, ptyBuf, childOut, termOut,
                   sigsent>>
    /\ UNCHANGED <<spawn, winVars, copied, lastFwd, quiet>>

StdinBranchResetsEscape(cap) ==
    /\ pc = "stdin"
    /\ IF "stdin" \notin rlist
       THEN pc' = "poll" /\ UNCHANGED <<exc, data, out, stdinHist, readStart, in_escape>>
       ELSE \/ ToFinally(exc) /\ UNCHANGED <<data, out, stdinHist, readStart, in_escape>>
            \/ \E chunk \in Chunks(cap - Len(stdinHist)) :
                 /\ data' = chunk
                 /\ out' = <<>>
                 /\ in_escape' = FALSE
                 /\ stdinHist' = stdinHist \o chunk
                 /\ readStart' = Len(stdinHist)
                 /\ pc' = "bytes"
                 /\ exc' = exc
    /\ UNCHANGED <<child, termMode, snapshot, restores, sigwinch, after_newline,
                   rlist, lastStep, prevStep, ptyIn, ptyBuf, childOut, termOut,
                   sigsent>>
    /\ UNCHANGED <<spawn, winVars, copied, lastFwd, quiet>>

StdinBranch(cap) ==
    /\ pc = "stdin"
    /\ IF "stdin" \notin rlist
       THEN pc' = "poll" /\ UNCHANGED <<exc, data, out, stdinHist, readStart>>
       ELSE \/ ToFinally(exc) /\ UNCHANGED <<data, out, stdinHist, readStart>>
            \/ \E chunk \in Chunks(cap - Len(stdinHist)) :
                 /\ data' = chunk
                 /\ out' = <<>>
                 /\ stdinHist' = stdinHist \o chunk
                 /\ readStart' = Len(stdinHist)
                 /\ pc' = "bytes"
                 /\ exc' = exc
    /\ UNCHANGED <<child, termMode, snapshot, restores, sigwinch, after_newline,
                   in_escape, rlist, lastStep, prevStep, ptyIn, ptyBuf, childOut, termOut,
                   sigsent>>
    /\ UNCHANGED <<spawn, winVars, copied, lastFwd, quiet>>

\* One iteration of `for byte in data` (lines 216-245).
ProcessByte ==
    /\ pc = "bytes"
    /\ data # <<>>
    /\ LET byte == Head(data)
           r == Detect(byte, after_newline, in_escape)
       IN  /\ after_newline' = r.an
           /\ in_escape' = r.ie
           /\ lastStep' = [byte |-> byte, an |-> after_newline, ie |-> in_escape,
                           emit |-> r.emit, fwd |-> r.fwd]
           /\ prevStep' = lastStep
           /\ data' = Tail(data)
           /\ out' = out \o r.fwd
           /\ lastFwd' = IF r.fwd = <<>> THEN lastFwd ELSE r.fwd[Len(r.fwd)]
           /\ CASE r.emit = "disconnect" ->
                     \* os.write(1, b"\r\nDisconnected.\r\n");
                     \* os.kill(child_pid, SIGKILL); os.waitpid(child_pid, 0); return
                     \/ /\ termOut' = Append(termOut, "notice")
                        /\ sigsent' = Append(sigsent, [sig |-> "SIGKILL", to |-> child])
                        /\ child' = "reaped"
                        /\ ToFinally(exc)
                     \/ /\ ToFinally("OSError")
                        /\ UNCHANGED <<termOut, sigsent, child>>
                [] r.emit = "showHelp" ->
                     \* os.write(1, ESCAPE_HELP.encode()); continue
                     /\ UNCHANGED <<sigsent, child>>
                     /\ \/ termOut' = Append(termOut, "help") /\ UNCHANGED <<pc, exc>>
                        \/ termOut' = termOut /\ ToFinally("OSError")
                [] OTHER ->
                     UNCHANGED <<pc, exc, termOut, sigsent, child>>
    /\ UNCHANGED <<termMode, snapshot, restores, sigwinch, rlist, stdinHist, ptyIn,
                   ptyBuf, childOut>>
    /\ UNCHANGED <<spawn, winVars, copied, quiet, readStart>>

\* if out: os.write(master_fd, bytes(out))   (an OSError is not caught)
WriteOut ==
    /\ pc = "bytes"
    /\ data = <<>>
    /\ IF out = <<>>
       THEN pc' = "poll" /\ UNCHANGED <<exc, ptyIn>>
       ELSE \/ ptyIn' = ptyIn \o out /\ pc' = "poll" /\ exc' = exc
            \/ ptyIn' = ptyIn /\ ToFinally("OSError")
    /\ UNCHANGED <<child, termMode, snapshot, restores, sigwinch, after_newline,
                   in_escape, rlist, data, out, lastStep, prevStep, stdinHist, ptyBuf, childOut,
                   termOut, sigsent>>
    /\ UNCHANGED <<spawn, winVars, copied, lastFwd, quiet, readStart>>

\* pid, status = os.waitpid(child_pid, os.WNOHANG); if pid != 0: break
PollExit ==
    /\ pc = "poll"
    /\ IF child = "zombie"
       THEN child' = "reaped" /\ pc' = "fin_restore"
       ELSE child' = child /\ pc' = "select"
    /\ UNCHANGED <<exc, termMode, snapshot, restores, sigwinch, after_newline,
                   in_escape, rlist, data, out, lastStep, prevStep, stdinHist, ptyIn, ptyBuf,
                   childOut, termOut, sigsent>>
    /\ UNCHANGED <<spawn, winVars, copied, lastFwd, quiet, readStart>>


\* ---- the finally block (lines 255-263) ----------------------------------
\* termios.tcsetattr(0, termios.TCSAFLUSH, old_settings): a termios.error leaves
\* the block at once (the statements after it do not run).
FinRestoreSkipped ==
    /\ pc = "fin_restore"
    /\ pc' = "fin_signal"
    /\ UNCHANGED <<restores, termMode, exc>>
    /\ UNCHANGED <<child, snapshot, sigwinch, after_newline, in_escape, rlist, data,
                   out, lastStep, prevStep, stdinHist, ptyIn, ptyBuf, childOut, termOut, sigsent>>
    /\ UNCHANGED <<spawn, winVars, copied, lastFwd, quiet, readStart>>

FinRestore ==
    /\ pc = "fin_restore"
    /\ restores' = restores + 1
    /\ \/ termMode' = "cooked" /\ pc' = "fin_signal" /\ exc' = exc
       \/ termMode' = termMode /\ pc' = "raised" /\ exc' = "termios.error"
    /\ UNCHANGED <<child, snapshot, sigwinch, after_newline, in_escape, rlist, data,
                   out, lastStep, prevStep, stdinHist, ptyIn, ptyBuf, childOut, termOut, sigsent>>
    /\ UNCHANGED <<spawn, winVars, copied, lastFwd, quiet, readStart>>

\* signal.signal(signal.SIGWINCH, old_sigwinch)
FinSignal ==
    /\ pc = "fin_signal"
    /\ sigwinch' = "old"
    /\ pc' = "fin_kill"
    /\ UNCHANGED <<exc, child, termMode, snapshot, restores, after_newline, in_escape,
                   rlist, data, out, lastStep, prevStep, stdinHist, ptyIn, ptyBuf, childOut,
                   termOut, sigsent>>
    /\ UNCHANGED <<spawn, winVars, copied, lastFwd, quiet, readStart>>

\* os.kill(child_pid, signal.SIGTERM): raises ProcessLookupError (an OSError, caught
\* at line 262) when the child has been reaped; otherwise the signal is sent.
FinKill ==
    /\ pc = "fin_kill"
    /\ sigsent' = Append(sigsent, [sig |-> "SIGTERM", to |-> child])
    /\ IF child \in {"running", "hung", "zombie"} THEN pc' = "fin_wait" ELSE Leave
    /\ UNCHANGED <<exc, child, termMode, snapshot, restores, sigwinch, after_newline,
                   in_escape, rlist, data, out, lastStep, prevStep, stdinHist, ptyIn, ptyBuf,
                   childOut, termOut>>
    /\ UNCHANGED <<spawn, winVars, copied, lastFwd, quiet, readStart>>

\* os.waitpid(child_pid, 0): blocks until the child has exited, then reaps it.
FinWait ==
    /\ pc = "fin_wait"
    /\ child = "zombie"
    /\ child' = "reaped"
    /\ Leave
    /\ UNCHANGED <<exc, termMode, snapshot, restores, sigwinch, after_newline,
                   in_escape, rlist, data, out, lastStep, prevStep, stdinHist, ptyIn, ptyBuf,
                   childOut, termOut, sigsent>>
    /\ UNCHANGED <<spawn, winVars, copied, lastFwd, quiet, readStart>>

\* ---- the environment ----------------------------------------------------
\* The child (modal shell) writes a chunk of output to its side of the pty.
ChildWrite ==
    /\ ~Ended
    /\ child = "running"
    /\ childOut < MaxChildOut
    /\ childOut' = childOut + 1
    /\ ptyBuf' = ptyBuf + 1
    /\ UNCHANGED <<pc, exc, child, termMode, snapshot, restores, sigwinch,
                   after_newline, in_escape, rlist, data, out, lastStep, prevStep, stdinHist,
                   ptyIn, termOut, sigsent>>
    /\ UNCHANGED <<spawn, winVars, copied, lastFwd, quiet, readStart>>

\* The child exits (on its own, because execvp failed at line 173, or because
\* of the SIGTERM of line 260) and stays a zombie until it is waited for.
ChildExit ==
    /\ ~Ended
    /\ child = "running"
    /\ child' = "zombie"
    /\ UNCHANGED <<pc, exc, termMode, snapshot, restores, sigwinch, after_newline,
                   in_escape, rlist, data, out, lastStep, prevStep, stdinHist, ptyIn, ptyBuf,
                   childOut, termOut, sigsent>>
    /\ UNCHANGED <<spawn, winVars, copied, lastFwd, quiet, readStart>>

\* A signal whose disposition the proxy leaves at the default (SIGTERM, SIGHUP,
\* SIGQUIT; SIGKILL always) is delivered while the proxy waits in select: the
\* process terminates at once and no finally block runs.
ProcessKilled ==
    /\ pc = "select"
    /\ pc' = "killed"
    /\ UNCHANGED <<exc, child, termMode, snapshot, restores, sigwinch, after_newline,
                   in_escape, rlist, data, out, lastStep, prevStep, stdinHist, ptyIn, ptyBuf,
                   childOut, termOut, sigsent>>
    /\ UNCHANGED <<spawn, winVars, copied, lastFwd, quiet, readStart>>

\* SIGINT is delivered while the proxy waits in select: Python raises
\* KeyboardInterrupt there, which unwinds through the finally block.
Interrupt ==
    /\ pc = "select"
    /\ ToFinally("KeyboardInterrupt")
    /\ UNCHANGED <<child, termMode, snapshot, restores, sigwinch, after_newline,
                   in_escape, rlist, data, out, lastStep, prevStep, stdinHist, ptyIn, ptyBuf,
                   childOut, termOut, sigsent>>
    /\ UNCHANGED <<spawn, winVars, copied, lastFwd, quiet, readStart>>

\* The local terminal is resized. With handle_winch installed (lines 179-182)
\* the SIGWINCH runs copy_winsize(0, master_fd) before the interrupted
\* statement goes on; with the previous disposition nothing is copied.
ResizeRaises ==
    /\ ~Ended
    /\ \E g \in Geoms \ {localGeom} : localGeom' = g
    /\ IF sigwinch = "handle_winch"
       THEN \/ CopyWinsize(localGeom', TRUE) /\ UNCHANGED <<pc, exc>>
            \/ CopyWinsize(localGeom', FALSE) /\ pc' = "raised" /\ exc' = "OSError"
       ELSE UNCHANGED <<ptyGeom, lastSync, everFailed, pc, exc>>
    /\ UNCHANGED <<child, termMode, snapshot, restores, sigwinch, after_newline,
                   in_escape, rlist, data, out, lastStep, prevStep, stdinHist, ptyIn,
                   ptyBuf, childOut, termOut, sigsent, spawn, copied, lastFwd, quiet, readStart>>

Resize ==
    /\ ~Ended
    /\ \E g \in Geoms \ {localGeom} : localGeom' = g
    /\ IF sigwinch = "handle_winch"
       THEN \E ok \in BOOLEAN : CopyWinsize(localGeom', ok)
       ELSE UNCHANGED <<ptyGeom, lastSync, everFailed>>
    /\ UNCHANGED <<pc, exc, child, termMode, snapshot, restores, sigwinch, after_newline,
                   in_escape, rlist, data, out, lastStep, prevStep, stdinHist, ptyIn,
                   ptyBuf, childOut, termOut, sigsent, spawn, copied, lastFwd, quiet, readStart>>

\* os.execvp("modal", ...) fails in the forked child (line 173: no such
\* command, for one): the exception unwinds the child's copy of the program,
\* which prints the traceback to its stderr, the pty, and exits. The parent
\* is not told.
ExecFails ==
    /\ ~Ended
    /\ child = "running"
    /\ spawn = "ok"
    /\ childOut = 0
    /\ spawn' = "failed"
    /\ child' = "zombie"
    /\ childOut' = childOut + 1
    /\ ptyBuf' = ptyBuf + 1
    /\ UNCHANGED <<pc, exc, termMode, snapshot, restores, sigwinch, after_newline,
                   in_escape, rlist, data, out, lastStep, prevStep, stdinHist, ptyIn,
                   termOut, sigsent, winVars, copied, lastFwd, quiet, readStart>>

\* The child stops reacting to SIGTERM (it ignores or blocks the signal, or it
\* has handed the session to a process that does): only SIGKILL ends it.
ChildHangs ==
    /\ ~Ended
    /\ child = "running"
    /\ child' = "hung"
    /\ UNCHANGED <<pc, exc, termMode, snapshot, restores, sigwinch, after_newline,
                   in_escape, rlist, data, out, lastStep, prevStep, stdinHist, ptyIn,
                   ptyBuf, childOut, termOut, sigsent, spawn, winVars, copied, lastFwd,
                   quiet, readStart>>

\* From here on the operator types nothing and the pty is held open without a
\* writer.
GoQuiet ==
    /\ ~Ended
    /\ ~quiet
    /\ quiet' = TRUE
    /\ UNCHANGED <<pc, exc, child, termMode, snapshot, restores, sigwinch, after_newline,
                   in_escape, rlist, data, out, lastStep, prevStep, stdinHist, ptyIn,
                   ptyBuf, childOut, termOut, sigsent, spawn, winVars, copied, lastFwd,
                   readStart>>

Next ==
    \/ Fork
    \/ InitialWinsize
    \/ RegisterWinch
    \/ TcGetAttr
    \/ SetRaw
    \/ Select
    \/ MasterBranch
    \/ StdinBranch(MaxInput)
    \/ ProcessByte
    \/ WriteOut
    \/ PollExit
    \/ FinRestore
    \/ FinSignal
    \/ FinKill
    \/ FinWait
    \/ ChildWrite
    \/ ChildExit
    \/ ProcessKilled
    \/ Interrupt

Spec == Init /\ [][Next]_vars


\* ---- the session in its whole environment --------------------------------
\* The same program with, in addition, a local terminal that is resized, a
\* geometry call that fails, an exec that fails in the child, a child that does
\* not react to SIGTERM.
EnvNext ==
    \/ Fork
    \/ InitialWinsize
    \/ InitialWinsizeFails
    \/ RegisterWinch
    \/ TcGetAttr
    \/ SetRaw
    \/ Select
    \/ MasterBranch
    \/ StdinBranch(MaxEnvInput)
    \/ ProcessByte
    \/ WriteOut
    \/ PollExit
    \/ FinRestore
    \/ FinSignal
    \/ FinKill
    \/ FinWait
    \/ ChildWrite
    \/ ChildExit
    \/ ProcessKilled
    \/ Interrupt
    \/ Resize
    \/ ExecFails
    \/ ChildHangs

EnvSpec == Init /\ [][EnvNext]_vars

\* The proxy is a running process: when its next statement can complete, it
\* does. That select returns is meant here, not that it raises.
ProxyStep ==
    \/ InitialWinsize
    \/ RegisterWinch
    \/ TcGetAttr
    \/ SetRaw
    \/ Select /\ pc' = "master"
    \/ MasterBranch
    \/ StdinBranch(MaxEnvInput)
    \/ ProcessByte
    \/ WriteOut
    \/ PollExit
    \/ FinRestore
    \/ FinSignal
    \/ FinKill
    \/ FinWait

\* ---- the session with descriptors that go quiet ---------------------------
\* The program and the environment of Spec, where in addition both descriptors
\* may stay quiet for good, run by a proxy that keeps going.
LiveNext ==
    \/ Fork
    \/ InitialWinsize
    \/ RegisterWinch
    \/ TcGetAttr
    \/ SetRaw
    \/ Select
    \/ MasterBranch
    \/ StdinBranch(MaxEnvInput)
    \/ ProcessByte
    \/ WriteOut
    \/ PollExit
    \/ FinRestore
    \/ FinSignal
    \/ FinKill
    \/ FinWait
    \/ ChildWrite
    \/ ChildExit
    \/ ProcessKilled
    \/ Interrupt
    \/ GoQuiet

LiveSpec == Init /\ [][LiveNext]_vars /\ WF_vars(ProxyStep)


\* ---- the escape filter alone ---------------------------------------------
\* The loop after a successful setup, in an environment that lets the filter
\* run: the child stays alive and silent, no read or write fails, no signal
\* arrives; the operator types up to MaxDetInput bytes, split into reads in any
\* way. The run ends when `~.` leaves the loop.
DetInit ==
    /\ pc = "select"
    /\ exc = "none"
    /\ child = "running"
    /\ termMode = "raw"
    /\ snapshot = TRUE
    /\ restores = 0
    /\ sigwinch = "handle_winch"
    /\ after_newline = TRUE
    /\ in_escape = FALSE
    /\ rlist = {}
    /\ data = <<>>
    /\ out = <<>>
    /\ lastStep = NoStep
    /\ prevStep = NoStep
    /\ stdinHist = <<>>
    /\ ptyIn = <<>>
    /\ ptyBuf = 0
    /\ childOut = 0
    /\ termOut = <<>>
    /\ sigsent = <<>>
    /\ spawn = "ok"
    /\ localGeom = "80x24"
    /\ ptyGeom = "80x24"
    /\ lastSync = "ok"
    /\ everFailed = FALSE
    /\ copied = FALSE
    /\ lastFwd = 0
    /\ quiet = FALSE
    /\ readStart = 0

QuietStep == exc' = "none" /\ (pc' = "fin_restore" => termOut' # termOut)

DetNext ==
    \/ Select /\ QuietStep
    \/ MasterBranch /\ QuietStep
    \/ StdinBranch(MaxDetInput) /\ QuietStep
    \/ ProcessByte /\ QuietStep
    \/ WriteOut /\ QuietStep
    \/ PollExit /\ QuietStep

DetSpec == DetInit /\ [][DetNext]_vars


\* ==== properties ==========================================================
Range(s) == {s[i] : i \in 1..Len(s)}

NoTilde(s) == ESCAPE_CHAR \notin Range(s)

\* The loop has been left (by break, return or exception).
LoopLeft == pc \in {"fin_restore", "fin_signal", "fin_kill", "fin_wait",
                    "returned", "raised"}

HelpShown == "help" \in Range(termOut)

\* C1: once old_settings is captured, tcsetattr(0, TCSAFLUSH, old_settings) is
\* never called twice; when control has left the function by return or exception
\* it has been called exactly once; and when the function has returned, the
\* terminal is back in its saved mode and the child has been waited for.
C1_RestoredOnceChildReaped ==
    /\ restores <= 1
    /\ (snapshot /\ pc \in {"returned", "raised"}) => restores = 1
    /\ pc = "returned" => (termMode = "cooked" /\ child = "reaped")

\* The loop was left while the child was running (select error or stdin
\* end-of-stream): SIGTERM was sent to the live child, it was waited for, and
\* the function returned with the terminal restored once.
C1_Witness ==
    /\ pc = "returned"
    /\ restores = 1
    /\ termMode = "cooked"
    /\ child = "reaped"
    /\ sigsent = <<[sig |-> "SIGTERM", to |-> "running"]>>

\* C2: on the exit paths of the loop (break or return, no exception) the
\* terminal mode is never restored while the child is still alive and un-waited.
C2_RestoreOnlyAfterChildGone ==
    (restores > 0 /\ exc = "none") => child # "running"

\* C3: once old_settings is captured, control never leaves the session (by
\* return, by exception, or by a signal that ends the process) with the
\* terminal left raw: it has been restored exactly once.
C3_NeverLeftRaw ==
    (snapshot /\ Ended) => (termMode = "cooked" /\ restores = 1)

\* C4: as long as the operator has typed no `~`, whatever the split into reads,
\* the bytes written to the pty master followed by those pending in `out` and
\* those of the current read not yet scanned are exactly the bytes typed, in
\* order; between reads the bytes written are exactly the bytes typed; no help
\* block or notice is written and the loop is not left.
C4_Passthrough ==
    NoTilde(stdinHist) =>
        /\ "help" \notin Range(termOut)
        /\ "notice" \notin Range(termOut)
        /\ lastStep.emit \in {"none", "forward"}
        /\ ~LoopLeft
        /\ IF pc = "bytes"
           THEN ptyIn \o out \o data = stdinHist
           ELSE ptyIn = stdinHist

\* At least three bytes without `~`, a CR and a LF among them, typed in more
\* than one read, have all been written to the pty unchanged.
C4_Witness ==
    /\ pc = "poll"
    /\ NoTilde(stdinHist)
    /\ Len(stdinHist) >= 3
    /\ {CR, LF} \subseteq Range(stdinHist)
    /\ Len(out) < Len(stdinHist)
    /\ ptyIn = stdinHist

\* C5: when `.` is scanned while in_escape is set, the introducer had been
\* consumed at line start, the iteration disconnects and forwards nothing, the
\* loop is left (no byte after the `.` is scanned), and -- unless the write of
\* the notice itself raised -- the notice is the last thing written to the
\* local terminal and the child has been sent SIGKILL and waited for; from the
\* disconnect on, nothing more is written to the pty master.
C5_Disconnect ==
    /\ [](  (lastStep.ie /\ lastStep.byte = DOT) =>
              /\ lastStep.an
              /\ lastStep.emit = "disconnect"
              /\ lastStep.fwd = <<>>
              /\ LoopLeft
              /\ \/ "notice" \notin Range(termOut) /\ exc # "none"
                 \/ /\ termOut # <<>>
                    /\ termOut[Len(termOut)] = "notice"
                    /\ sigsent # <<>>
                    /\ sigsent[1].sig = "SIGKILL"
                    /\ sigsent[1].to \in {"running", "zombie"}
                    /\ child = "reaped" )
    /\ [][ (lastStep'.ie /\ lastStep'.byte = DOT) => ptyIn' = ptyIn ]_vars

\* `~.` and one more byte arrived in one read at session start: the function
\* returned, nothing was written to the pty, the byte after the `.` was never
\* scanned, the notice was written and the child killed and reaped.
C5_Witness ==
    /\ pc = "returned"
    /\ Len(stdinHist) = 3
    /\ stdinHist[1] = ESCAPE_CHAR
    /\ stdinHist[2] = DOT
    /\ lastStep.emit = "disconnect"
    /\ data # <<>>
    /\ ptyIn = <<>>
    /\ termOut = <<"notice">>
    /\ child = "reaped"

\* C6: when the introducer is scanned while in_escape is set (`~~`), exactly
\* one `~` is forwarded, in_escape and after_newline are both false afterwards,
\* and a `.` or `?` scanned next is forwarded as data (no disconnect, no help).
C6_LiteralTilde ==
    /\ (lastStep.ie /\ lastStep.byte = ESCAPE_CHAR) =>
          /\ lastStep.emit = "forward"
          /\ lastStep.fwd = <<ESCAPE_CHAR>>
          /\ ~in_escape
          /\ ~after_newline
    /\ (prevStep.ie /\ prevStep.byte = ESCAPE_CHAR /\ lastStep.byte \in {DOT, QMARK}) =>
          /\ lastStep.emit = "forward"
          /\ lastStep.fwd = <<lastStep.byte>>

\* `~~.` was typed at line start: `~` and `.` were written to the pty and the
\* loop is still running.
C6_Witness ==
    /\ prevStep.ie /\ prevStep.byte = ESCAPE_CHAR
    /\ lastStep.byte = DOT
    /\ pc = "poll"
    /\ ptyIn = <<ESCAPE_CHAR, DOT>>
    /\ termOut = <<>>

\* C7: when a byte x other than `.`, `?`, `~` is scanned while in_escape is
\* set, exactly `~` then x are forwarded, in_escape is false afterwards, and
\* after_newline is true iff x is CR or LF.
C7_UnrecognizedEscape ==
    (lastStep.ie /\ lastStep.byte \notin {DOT, QMARK, ESCAPE_CHAR}) =>
        /\ lastStep.emit = "forward"
        /\ lastStep.fwd = <<ESCAPE_CHAR, lastStep.byte>>
        /\ ~in_escape
        /\ after_newline <=> (lastStep.byte \in {CR, LF})

\* `~` then CR typed at line start: both bytes reached the pty, in that order,
\* and after_newline is true.
C7_Witness ==
    /\ lastStep.ie
    /\ lastStep.byte = CR
    /\ after_newline
    /\ pc = "poll"
    /\ Len(out) = 2
    /\ ptyIn = <<ESCAPE_CHAR, CR>>

\* C8: an introducer scanned while after_newline and in_escape are both false
\* is forwarded at once and leaves in_escape false; a `.` or `?` scanned next
\* is forwarded as data (no disconnect, no help).
C8_MidLineTilde ==
    /\ (lastStep.emit # "none" /\ ~lastStep.an /\ ~lastStep.ie
            /\ lastStep.byte = ESCAPE_CHAR) =>
          /\ lastStep.emit = "forward"
          /\ lastStep.fwd = <<ESCAPE_CHAR>>
          /\ ~in_escape
    /\ (prevStep.emit # "none" /\ ~prevStep.an /\ ~prevStep.ie
            /\ prevStep.byte = ESCAPE_CHAR /\ lastStep.byte \in {DOT, QMARK}) =>
          /\ lastStep.emit = "forward"
          /\ lastStep.fwd = <<lastStep.byte>>

\* `x~.` was typed: all three bytes were written to the pty unchanged and the
\* loop is still running.
C8_Witness ==
    /\ ~prevStep.an /\ ~prevStep.ie /\ prevStep.byte = ESCAPE_CHAR
    /\ lastStep.byte = DOT
    /\ pc = "poll"
    /\ Len(stdinHist) = 3
    /\ ptyIn = stdinHist
    /\ termOut = <<>>

\* C9 as claimed: when `?` is scanned while in_escape is set, help is shown,
\* in_escape is cleared and after_newline is set to false, so an introducer
\* scanned next is forwarded as data.
C9_HelpClearsAfterNewline ==
    /\ (lastStep.ie /\ lastStep.byte = QMARK) =>
          /\ lastStep.emit = "showHelp"
          /\ ~in_escape
          /\ ~after_newline
    /\ (prevStep.ie /\ prevStep.byte = QMARK /\ lastStep.byte = ESCAPE_CHAR) =>
          lastStep.emit = "forward"

\* C9 as amended: when `?` is scanned while in_escape is set, help is shown,
\* nothing is forwarded, in_escape is cleared and after_newline is left as it
\* was (true), so an introducer scanned next is withheld and sets in_escape.
C9_HelpKeepsAfterNewline ==
    /\ (lastStep.ie /\ lastStep.byte = QMARK) =>
          /\ lastStep.emit = "showHelp"
          /\ lastStep.fwd = <<>>
          /\ ~in_escape
          /\ after_newline
    /\ (prevStep.ie /\ prevStep.byte = QMARK /\ lastStep.byte = ESCAPE_CHAR) =>
          /\ lastStep.emit = "swallow"
          /\ in_escape

\* `~?~` was typed at line start: help was shown once and the second `~` is
\* withheld.
C9_Witness ==
    /\ prevStep.ie /\ prevStep.byte = QMARK
    /\ lastStep.byte = ESCAPE_CHAR
    /\ in_escape
    /\ termOut = <<"help">>
    /\ ptyIn \o out = <<>>

\* C10: once help has been shown, a forwarded CR or LF still leaves
\* after_newline true, an introducer scanned right after it is still withheld,
\* and a `.` scanned while in_escape is set still disconnects.
C10_HelpKeepsLineSync ==
    /\ (HelpShown /\ lastStep.emit = "forward" /\ lastStep.byte \in {CR, LF}) =>
          after_newline
    /\ (HelpShown /\ prevStep.emit = "forward" /\ prevStep.byte \in {CR, LF}
            /\ lastStep.byte = ESCAPE_CHAR) =>
          lastStep.emit = "swallow"
    /\ (HelpShown /\ lastStep.ie /\ lastStep.byte = DOT) =>
          lastStep.emit = "disconnect"

\* `~?`, LF, `~.` were typed: help was shown, then the notice, and the loop
\* was left by the disconnect.
C10_Witness ==
    /\ stdinHist = <<ESCAPE_CHAR, QMARK, LF, ESCAPE_CHAR, DOT>>
    /\ lastStep.emit = "disconnect"
    /\ termOut = <<"help", "notice">>
    /\ LoopLeft

\* C11: when the loop has stopped because the exit poll reaped a child that
\* exited on its own (no signal had reached it: every signal sent found it
\* reaped already), nothing the child wrote is left unread in the pty.
C11_DrainedBeforeStop ==
    (/\ LoopLeft
     /\ child = "reaped"
     /\ \A i \in DOMAIN sigsent : sigsent[i].to = "reaped")
        => ptyBuf = 0

\* C12: once the terminal settings are saved, an OSError of a read or a write
\* never leaves interactive_shell: the function does not end by raising it.
C12_IOErrorReturnsNormally ==
    (pc = "raised" /\ snapshot) => exc # "OSError"

\* C13: in a session whose setup failed (the exec of `modal shell` failed in
\* the child), no step switches the local terminal to raw mode.
C13_NoRawAfterSpawnFailure ==
    [][ (spawn = "failed" /\ termMode # "raw") => termMode' # "raw" ]_vars

C16_CleanupWaitCompletes ==
    pc = "fin_wait" =>
        \/ ENABLED FinWait
        \/ ENABLED ChildExit
        \/ \E i \in DOMAIN sigsent : sigsent[i].sig = "SIGKILL"

\* C17: while handle_winch is installed and no geometry call has failed, the
\* geometry last applied to the pty is the local terminal's: no resize since
\* session start has been missed.
C17_GeometryConsistent ==
    (sigwinch = "handle_winch" /\ ~everFailed) => ptyGeom = localGeom

\* C18: a step that resizes the local terminal, or that runs the initial
\* sync, changes nothing but the geometry state (and, for the initial sync,
\* moves on to the registration of the handler): no exception, the loop
\* position, its ready list, the escape state, the bytes read and those being
\* forwarded, the terminal mode and the child are as before; a failed call
\* leaves the pty's geometry alone; and with the handler installed every
\* resize, whatever failed before, runs the sync again, which when it
\* succeeds applies the new geometry.
C18_GeometryFailureNotFatal ==
    /\ [][ (localGeom' # localGeom \/ (pc = "winsize" /\ pc' # pc)) =>
             /\ UNCHANGED <<exc, termMode, after_newline, in_escape, rlist, data, out,
                            ptyIn, ptyBuf, termOut, child, sigwinch, restores, sigsent>>
             /\ pc' = IF localGeom' = localGeom THEN "sigreg" ELSE pc
             /\ ptyGeom' \in {ptyGeom, localGeom'}
             /\ lastSync' = "failed" => (ptyGeom' = ptyGeom /\ everFailed') ]_vars
    /\ [][ (localGeom' # localGeom /\ sigwinch = "handle_winch") =>
             /\ lastSync' \in {"ok", "failed"}
             /\ lastSync' = "ok" => ptyGeom' = localGeom' ]_vars

\* A geometry call failed earlier in the session; a later resize was synced:
\* the pty has the new geometry, and the session is in the middle of a read,
\* in raw mode, with an escape sequence begun.
C18_Witness ==
    /\ everFailed
    /\ lastSync = "ok"
    /\ localGeom # "80x24"
    /\ ptyGeom = localGeom
    /\ pc = "bytes"
    /\ in_escape
    /\ termMode = "raw"
    /\ child = "running"

\* The proxy is inside the loop of lines 192-253.
InLoop == pc \in {"select", "master", "stdin", "bytes", "poll"}

\* C19: if the child has exited while the loop is running, then -- whether or
\* not a descriptor ever becomes ready again -- the loop is eventually left
\* and the terminal mode restored (unless an exception is on its way to the
\* caller, or the proxy itself was killed).
C19_ExitDetectionNotStarved ==
    (child = "zombie" /\ InLoop)
        ~> \/ LoopLeft /\ (termMode = "cooked" \/ exc # "none")
           \/ pc = "killed"

\* Both descriptors had gone quiet; the last select timed out, the exit poll
\* reaped the child, and the function returned with the terminal restored.
C19_Witness ==
    /\ pc = "returned"
    /\ quiet
    /\ rlist = {}
    /\ exc = "none"
    /\ child = "reaped"
    /\ sigsent = <<[sig |-> "SIGTERM", to |-> "reaped"]>>
    /\ termMode = "cooked"
    /\ restores = 1

\* C20: in every state of the detector, after_newline is true exactly when
\* no byte has been forwarded (appended to `out`) in the session yet or the
\* byte forwarded last is a carriage return or a line feed.
C20_AfterNewlineIffLineStart ==
    after_newline <=> (lastFwd = 0 \/ lastFwd \in {CR, LF})

\* `x`, CR, `~?` were typed: nothing was forwarded since the CR, the help was
\* shown, and after_newline is still true.
C20_Witness ==
    /\ stdinHist = <<120, CR, ESCAPE_CHAR, QMARK>>
    /\ data = <<>>
    /\ HelpShown
    /\ lastFwd = CR
    /\ after_newline
    /\ ~in_escape

\* The bytes read from fd 0 that the filter has scanned so far.
Scanned == SubSeq(stdinHist, 1, Len(stdinHist) - Len(data))

\* C21: when interactive_shell has returned, every byte the filter forwarded
\* (appended to `out`) has been written to the pty master, in order -- the
\* bytes forwarded in the same read as a `~.` included.
C21_ForwardedBytesWritten ==
    pc = "returned" => ptyIn = Scan(Scanned, ScanStart).fwd

\* C22: once the filter runs, its state, the outcome of the byte scanned last
\* and the byte forwarded last are those of one `for byte in data` pass over
\* all the bytes scanned so far taken as a single read: they do not depend on
\* how the bytes were split into reads, nor on what happened between reads.
C22_ReadBoundaryIndependence ==
    (InLoop \/ stdinHist # <<>>) =>
        LET st == Scan(Scanned, ScanStart)
        IN  /\ after_newline = st.an
            /\ in_escape = st.ie
            /\ lastStep.emit = st.emit
            /\ lastFwd = IF st.fwd = <<>> THEN 0 ELSE st.fwd[Len(st.fwd)]

\* The introducer was the last byte of one read and the `.` the first byte of
\* the next one, an iteration that copied no pty output, while pty output had
\* been copied in an earlier iteration: the session disconnected all the same.
C22_Witness ==
    /\ readStart >= 1
    /\ stdinHist[readStart] = ESCAPE_CHAR
    /\ Len(Scanned) = readStart + 1
    /\ stdinHist[readStart + 1] = DOT
    /\ prevStep.emit = "swallow"
    /\ lastStep.emit = "disconnect"
    /\ ~copied
    /\ termOut = <<"data", "notice">>
    /\ pc = "returned"

\* C23: whenever in_escape is set, after_newline is set too; the byte scanned
\* last was an introducer found at line start and withheld; and the byte
\* scanned while in_escape was set is never withheld itself, so that no more
\* than one introducer is withheld at a time.
C23_InEscapeImpliesAfterNewline ==
    /\ in_escape =>
          /\ after_newline
          /\ lastStep.byte = ESCAPE_CHAR
          /\ lastStep.an
          /\ ~lastStep.ie
          /\ lastStep.emit = "swallow"
          /\ lastStep.fwd = <<>>
    /\ lastStep.ie => (lastStep.emit # "swallow" /\ ~in_escape)

\* `~~`, CR, `~` were typed: the first introducer was resolved (one `~` and
\* the CR were forwarded) and the last one is withheld at line start.
C23_Witness ==
    /\ stdinHist = <<ESCAPE_CHAR, ESCAPE_CHAR, CR, ESCAPE_CHAR>>
    /\ data = <<>>
    /\ in_escape
    /\ after_newline
    /\ ptyIn \o out = <<ESCAPE_CHAR, CR>>

\* C24: no signal is ever sent to child_pid after the child has been waited
\* for: every os.kill finds the child not yet reaped.
C24_NoKillAfterReap ==
    \A i \in DOMAIN sigsent : sigsent[i].to # "reaped"

\* C25: when interactive_shell has returned or raised, the SIGWINCH handler
\* is the one that was installed before the call.
C25_HandlerReinstalled ==
    pc \in {"returned", "raised"} => sigwinch = "old"

====
